---- MODULE Spec2Model ----
(***************************************************************************)
(* Model of newwebserver.py: a one-shot script that resolves its settings  *)
(* from argv, then provisions an EC2 instance (key pair, security group,   *)
(* instance launch) and an S3 bucket filled with the web files.            *)
(*                                                                         *)
(* The script is single-threaded.  Every remote call and every local file  *)
(* operation whose failure the script handles is one step; its outcome is  *)
(* chosen by the environment.                                              *)
(***************************************************************************)
EXTENDS Integers, Sequences, FiniteSets, TLC

\* ------------------------------------------------------------------ bounds
MaxArgs == 2       \* command-line words after the script name
MaxFiles == 2      \* entries of <webFilesPath>/bucket
MaxPolls == 2      \* polls of wait_until_running that may observe "pending"

\* ------------------------------------------------------------------ inputs
ScriptName == "newwebserver.py"

Tokens ==
    {"--bucket_name", "-bucket_name", "--instance_name", "-instance_name",
     "--web_files_path", "-web_files_path", "--help", "v1"}

SeqsUpTo(S, n) == UNION {[1..k -> S] : k \in 0..n}

Argvs == {<<ScriptName>> \o a : a \in SeqsUpTo(Tokens, MaxArgs)}

SessionIds == {"uuid-a", "uuid-b"}

FileNames == {"index.html", "logo.png", "assets"}

Range(s) == {s[i] : i \in 1..Len(s)}

\* Directory listings: every entry name appears once.
Listings == {l \in SeqsUpTo(FileNames, MaxFiles) : Cardinality(Range(l)) = Len(l)}

BucketErrorCodes == {"BucketAlreadyOwnedByYou", "BucketAlreadyExists", "AccessDenied"}

\* Outcomes of s3.create_bucket: success, a ClientError carrying one of the
\* error codes, or an exception that has no .response attribute.
CreateBucketOutcomes == {"ok", "NoResponse"} \cup BucketErrorCodes

\* ------------------------------------------------------------------- state
VARIABLES
    argv,            \* sys.argv
    processID,       \* session UUID (line 28)
    pc,              \* position of the script
    exc,             \* exception that ended the process, or "none"
    calls,           \* remote calls issued so far, in order
    bucketName, instanceName, webFilesPath, keyName,
    awaited,         \* index in AwaitOrder of the coroutine main is awaiting
    createOutcome,   \* outcome of s3.create_bucket, "none" before the call
    fillInvoked,     \* fillBucket has been called
    scanned,         \* os.scandir returned a listing
    entries,         \* the listing of <webFilesPath>/bucket
    uploaded,        \* number of entries uploaded successfully
    failedAt,        \* index of the entry whose upload raised, 0 if none
    fillRaised,      \* the try block of fillBucket raised
    objects,         \* objects in the bucket put there by this run
    fillResult, bucketResult, instResult,
    keyPairs, securityGroups, instances,   \* resources created by this run
    keyPairOutcome,  \* outcome of the key-pair try block, "none" before it
    ingressDone,     \* number of authorize_ingress calls that succeeded
    sgRules,         \* ingress rules of the created security group
    sgStepOk,        \* the security-group try block completed
    launchOk,        \* ec2.create_instances returned
    instState,       \* state of the launched instance
    polls,           \* polls that observed "pending"
    observedRunning, \* the waiter has observed state "running"
    waitRaised       \* wait_until_running raised

cfgVars == <<bucketName, instanceName, webFilesPath, keyName>>
bucketVars == <<createOutcome, fillInvoked, scanned, entries, uploaded, failedAt,
                fillRaised, objects, fillResult, bucketResult>>
instVars == <<instResult, keyPairs, securityGroups, instances, keyPairOutcome,
              ingressDone, sgRules, sgStepOk, launchOk, instState, polls,
              observedRunning, waitRaised>>
vars == <<argv, processID, pc, exc, calls, awaited, cfgVars, bucketVars, instVars>>

Unset == "<unset>"

Call(op, name, extra, port) == [op |-> op, name |-> name, extra |-> extra, port |-> port]

Init ==
    /\ argv \in Argvs
    /\ processID \in SessionIds
    /\ pc = "startup"
    /\ exc = "none"
    /\ calls = <<>>
    /\ bucketName = Unset /\ instanceName = Unset
    /\ webFilesPath = Unset /\ keyName = Unset
    /\ awaited = 0
    /\ createOutcome = "none"
    /\ fillInvoked = FALSE /\ scanned = FALSE /\ entries = <<>>
    /\ uploaded = 0 /\ failedAt = 0 /\ fillRaised = FALSE
    /\ objects = {}
    /\ fillResult = "none" /\ bucketResult = "none" /\ instResult = "none"
    /\ keyPairs = {} /\ securityGroups = {} /\ instances = {}
    /\ keyPairOutcome = "none"
    /\ ingressDone = 0 /\ sgRules = {} /\ sgStepOk = FALSE
    /\ launchOk = FALSE /\ instState = "none" /\ polls = 0
    /\ observedRunning = FALSE /\ waitRaised = FALSE

\* ---------------------------------------------------- module start (13-34)
\* boto3.client("sts").get_caller_identity() runs at import time, before main.
Startup ==
    /\ pc = "startup"
    /\ calls' = Append(calls, Call("get_caller_identity", "sts", "", 0))
    /\ \E ok \in BOOLEAN :
         IF ok THEN pc' = "resolve_bucket" /\ exc' = exc
               ELSE pc' = "crashed" /\ exc' = "StartupError"
    /\ UNCHANGED <<argv, processID, awaited, cfgVars, bucketVars, instVars>>

\* ------------------------------------------------- settings (main, 52-69)
\* list.index: position of the first element equal to x (0 when absent).
Index(s, x) ==
    IF x \in Range(s) THEN CHOOSE i \in 1..Len(s) : s[i] = x /\ \A j \in 1..(i-1) : s[j] # x
    ELSE 0

\* sys.argv[sys.argv.index(word) + 1]: the value, or the exception raised.
Lookup(s, word) ==
    IF Index(s, word) = 0 THEN [raised |-> "ValueError", value |-> Unset]
    ELSE IF Index(s, word) + 1 > Len(s) THEN [raised |-> "IndexError", value |-> Unset]
    ELSE [raised |-> "none", value |-> s[Index(s, word) + 1]]

\* One "if flag in sys.argv: X = argv[index(word)+1] else: X = default".
Resolve(flag, word, default) ==
    IF flag \in Range(argv) THEN Lookup(argv, word)
    ELSE [raised |-> "none", value |-> default]

DefaultBucketName == "webserver-assignment-bucket-brazill"
DefaultInstanceName == "webserver-" \o processID
DefaultWebFilesPath == "./webserver_files"

ResolveBucketName ==
    /\ pc = "resolve_bucket"
    /\ LET r == Resolve("--bucket_name", "-bucket_name", DefaultBucketName) IN
         IF r.raised = "none"
         THEN bucketName' = r.value /\ pc' = "resolve_instance" /\ exc' = exc
         ELSE bucketName' = bucketName /\ pc' = "crashed" /\ exc' = r.raised
    /\ UNCHANGED <<argv, processID, calls, awaited, instanceName, webFilesPath,
                   keyName, bucketVars, instVars>>

ResolveInstanceName ==
    /\ pc = "resolve_instance"
    /\ LET r == Resolve("--instance_name", "-instance_name", DefaultInstanceName) IN
         IF r.raised = "none"
         THEN instanceName' = r.value /\ pc' = "resolve_path" /\ exc' = exc
         ELSE instanceName' = instanceName /\ pc' = "crashed" /\ exc' = r.raised
    /\ UNCHANGED <<argv, processID, calls, awaited, bucketName, webFilesPath,
                   keyName, bucketVars, instVars>>

ResolveWebFilesPath ==
    /\ pc = "resolve_path"
    /\ LET r == Resolve("--web_files_path", "-web_files_path", DefaultWebFilesPath) IN
         IF r.raised = "none"
         THEN webFilesPath' = r.value /\ pc' = "open_script" /\ exc' = exc
         ELSE webFilesPath' = webFilesPath /\ pc' = "crashed" /\ exc' = r.raised
    /\ UNCHANGED <<argv, processID, calls, awaited, bucketName, instanceName,
                   keyName, bucketVars, instVars>>

\* keyName and open("./startupScript.sh") (71-72); a missing file is unhandled.
OpenStartupScript ==
    /\ pc = "open_script"
    /\ keyName' = "webserver-key-" \o processID
    /\ \E exists \in BOOLEAN :
         IF exists THEN pc' = "help_check" /\ exc' = exc
                   ELSE pc' = "crashed" /\ exc' = "FileNotFoundError"
    /\ UNCHANGED <<argv, processID, calls, awaited, bucketName, instanceName,
                   webFilesPath, bucketVars, instVars>>

\* ------------------------------------------------ main, 74-86 (dispatch)
HelpRequestedSingleDash == "-help" \in Range(argv)

HelpRequested == "--help" \in Range(argv)

\* The order in which main awaits the two coroutines (lines 85-86).  A
\* coroutine object runs only when it is awaited, and neither coroutine
\* suspends, so the first one awaited finishes before the second one starts.
AwaitOrderBucketFirst == <<"createBucket", "createInstance">>

AwaitOrder == <<"createInstance", "createBucket">>

Entry(coroutine) == IF coroutine = "createInstance" THEN "ci_keypair" ELSE "cb_create"

\* Where main continues when the coroutine it awaits returns.
NextPc == IF awaited < Len(AwaitOrder) THEN Entry(AwaitOrder[awaited + 1]) ELSE "done"

Return == pc' = NextPc /\ awaited' = awaited + 1 /\ exc' = exc

\* if "--help" in sys.argv: doHelp(); return.  Otherwise the two coroutine
\* objects are built (no call is issued yet) and the first one is awaited.
HelpCheck ==
    /\ pc = "help_check"
    /\ IF HelpRequested
       THEN pc' = "done" /\ awaited' = awaited
       ELSE pc' = NextPc /\ awaited' = awaited + 1
    /\ UNCHANGED <<argv, processID, exc, calls, cfgVars, bucketVars, instVars>>

\* --------------------------------------------------- createInstance, 144-269
KeyPairTags == {[Key |-> processID, Value |-> ""]}
SecurityGroupTags == {[Key |-> processID, Value |-> ""]}
InstanceNameTags == {[Key |-> "Name", Value |-> instanceName]}
InstanceTags == {[Key |-> processID, Value |-> ""]}

SecurityGroupName == "webserver-security-group-" \o processID

\* Outcomes of the first try block: create_key_pair raises, or the key pair
\* is created and open()/write() of the .pem file raises, or all succeed.
KeyPairOutcomes == {"ok", "api_error", "file_error"}

\* The outcomes raised inside the try block, which its except clause turns
\* into return False.
KeyPairCaughtApiOnly == {"api_error"}

KeyPairCaught == {"api_error", "file_error"}

CreateKeyPair ==
    /\ pc = "ci_keypair"
    /\ calls' = Append(calls, Call("create_key_pair", keyName, processID, 0))
    /\ \E outcome \in KeyPairOutcomes :
         /\ keyPairs' = IF outcome = "api_error" THEN keyPairs
                        ELSE keyPairs \cup {[KeyName |-> keyName, Tags |-> KeyPairTags]}
         /\ keyPairOutcome' = outcome
         /\ IF outcome \in KeyPairCaught
            THEN instResult' = "False" /\ Return
            ELSE instResult' = instResult /\ pc' = "ci_sg"
                 /\ awaited' = awaited /\ exc' = exc
    /\ UNCHANGED <<argv, processID, cfgVars, bucketVars, securityGroups, instances,
                   ingressDone, sgRules, sgStepOk, launchOk, instState, polls,
                   observedRunning, waitRaised>>

CreateSecurityGroup ==
    /\ pc = "ci_sg"
    /\ calls' = Append(calls, Call("create_security_group", SecurityGroupName, processID, 0))
    /\ \E ok \in BOOLEAN :
         IF ok
         THEN /\ securityGroups' = securityGroups \cup
                     {[GroupName |-> SecurityGroupName, Tags |-> SecurityGroupTags]}
              /\ instResult' = instResult /\ pc' = "ci_ingress"
              /\ awaited' = awaited /\ exc' = exc
         ELSE /\ securityGroups' = securityGroups
              /\ instResult' = "False" /\ Return
    /\ UNCHANGED <<argv, processID, cfgVars, bucketVars, keyPairs, instances,
                   keyPairOutcome, ingressDone, sgRules, sgStepOk, launchOk,
                   instState, polls, observedRunning, waitRaised>>

\* The ports of the three authorize_ingress calls, in program order.
IngressPortsWithoutSsh == <<80, 443>>

IngressPorts == <<80, 443, 22>>

IngressRule(port) ==
    [IpProtocol |-> "tcp", FromPort |-> port, ToPort |-> port, CidrIp |-> "0.0.0.0/0"]

\* One securityGroup.authorize_ingress call; after the last one the try
\* block is complete.
AuthorizeIngress ==
    /\ pc = "ci_ingress"
    /\ ingressDone < Len(IngressPorts)
    /\ LET port == IngressPorts[ingressDone + 1] IN
         /\ calls' = Append(calls, Call("authorize_ingress", SecurityGroupName, "0.0.0.0/0", port))
         /\ \E ok \in BOOLEAN :
              IF ok
              THEN /\ sgRules' = sgRules \cup {IngressRule(port)}
                   /\ ingressDone' = ingressDone + 1
                   /\ sgStepOk' = (ingressDone + 1 = Len(IngressPorts))
                   /\ pc' = IF ingressDone + 1 = Len(IngressPorts) THEN "ci_launch" ELSE "ci_ingress"
                   /\ instResult' = instResult /\ awaited' = awaited /\ exc' = exc
              ELSE /\ UNCHANGED <<sgRules, ingressDone, sgStepOk>>
                   /\ instResult' = "False" /\ Return
    /\ UNCHANGED <<argv, processID, cfgVars, bucketVars, keyPairs, securityGroups,
                   instances, keyPairOutcome, launchOk, instState, polls, observedRunning,
                   waitRaised>>

ImageId == "ami-096f43ef67d75e998"
InstanceType == "t2.nano"

CreateInstances ==
    /\ pc = "ci_launch"
    /\ calls' = Append(calls, Call("create_instances", ImageId, processID, 0))
    /\ \E ok \in BOOLEAN :
         IF ok
         THEN /\ instances' = instances \cup
                     {[ImageId |-> ImageId, InstanceType |-> InstanceType,
                       KeyName |-> keyName, SecurityGroup |-> SecurityGroupName,
                       Tags |-> InstanceTags]}
              /\ launchOk' = TRUE /\ instState' = "pending"
              /\ instResult' = instResult /\ pc' = "ci_wait"
              /\ awaited' = awaited /\ exc' = exc
         ELSE /\ UNCHANGED <<instances, launchOk, instState>>
              /\ instResult' = "False" /\ Return
    /\ UNCHANGED <<argv, processID, cfgVars, bucketVars, keyPairs, securityGroups,
                   keyPairOutcome, ingressDone, sgRules, sgStepOk, polls, observedRunning,
                   waitRaised>>

\* What one poll of the waiter can see: the state the instance has moved to,
\* or "error" when the describe call itself raises.
Observations == {"pending", "running", "terminated", "error"}

\* The waiter gives up on a failed describe call, on a terminated instance,
\* and on "pending" once its attempts are used up.
WaiterIgnoresTerminated(seen) ==
    \/ seen = "error"
    \/ seen = "pending" /\ polls >= MaxPolls

WaiterRaises(seen) ==
    \/ seen \in {"error", "terminated"}
    \/ seen = "pending" /\ polls >= MaxPolls

\* instance.wait_until_running(), one poll per step: the waiter raises (and
\* the except clause returns False), polls again, or returns.
WaitUntilRunning ==
    /\ pc = "ci_wait"
    /\ calls' = Append(calls, Call("describe_instances", "wait_until_running", "", 0))
    /\ \E seen \in Observations :
         /\ instState' = IF seen = "error" THEN instState ELSE seen
         /\ IF WaiterRaises(seen)
            THEN /\ waitRaised' = TRUE
                 /\ instResult' = "False" /\ Return
                 /\ UNCHANGED <<polls, observedRunning>>
            ELSE IF seen = "pending"
            THEN /\ polls' = polls + 1
                 /\ UNCHANGED <<pc, observedRunning, waitRaised, instResult, awaited, exc>>
            ELSE /\ observedRunning' = (seen = "running")
                 /\ pc' = "ci_reload"
                 /\ UNCHANGED <<polls, waitRaised, instResult, awaited, exc>>
    /\ UNCHANGED <<argv, processID, cfgVars, bucketVars, keyPairs, securityGroups,
                   instances, keyPairOutcome, ingressDone, sgRules, sgStepOk, launchOk>>

\* instance.reload() and the return at 263-269.
Reload ==
    /\ pc = "ci_reload"
    /\ calls' = Append(calls, Call("describe_instances", "reload", "", 0))
    /\ \E ok \in BOOLEAN : instResult' = IF ok THEN "True" ELSE "False"
    /\ Return
    /\ UNCHANGED <<argv, processID, cfgVars, bucketVars, keyPairs, securityGroups,
                   instances, keyPairOutcome, ingressDone, sgRules, sgStepOk,
                   launchOk, instState, polls, observedRunning, waitRaised>>

\* ----------------------------------------------------- createBucket, 90-118
Region == "eu-west-1"

\* Line 108: the one error code after which the existing bucket is reused.
RecoverableOrTaken(code) == code \in {"BucketAlreadyOwnedByYou", "BucketAlreadyExists"}

Recoverable(code) == code = "BucketAlreadyOwnedByYou"

\* What the try/except/else of createBucket does with the outcome of
\* s3.create_bucket: go on to fillBucket, return False, or raise.  Reading
\* err.response of an exception that has none raises AttributeError inside
\* the except clause.
Handle(outcome) ==
    IF outcome = "ok" THEN "fill"
    ELSE IF outcome = "NoResponse" THEN "raise"
    ELSE IF Recoverable(outcome) THEN "fill"
    ELSE "false"

CreateBucket ==
    /\ pc = "cb_create"
    /\ calls' = Append(calls, Call("create_bucket", bucketName, Region, 0))
    /\ \E outcome \in CreateBucketOutcomes :
         /\ createOutcome' = outcome
         /\ fillInvoked' = (Handle(outcome) = "fill")
         /\ CASE Handle(outcome) = "fill" ->
                   /\ pc' = "fb_scan"
                   /\ UNCHANGED <<bucketResult, awaited, exc>>
              [] Handle(outcome) = "false" ->
                   /\ bucketResult' = "False" /\ Return
              [] OTHER ->
                   /\ bucketResult' = "raised" /\ exc' = "AttributeError"
                   /\ pc' = "crashed" /\ awaited' = awaited
    /\ UNCHANGED <<argv, processID, cfgVars, scanned, entries, uploaded, failedAt,
                   fillRaised, objects, fillResult, instVars>>

\* ------------------------------------------------------ fillBucket, 121-140
\* os.scandir(webFilesPath + "/bucket"): the listing, or an exception caught
\* by the except clause of fillBucket.
ScanDirectory ==
    /\ pc = "fb_scan"
    /\ \/ /\ \E l \in Listings : entries' = l
          /\ scanned' = TRUE /\ pc' = "fb_upload"
          /\ UNCHANGED <<fillRaised, fillResult, bucketResult, awaited, exc>>
       \/ /\ fillRaised' = TRUE
          /\ fillResult' = "False" /\ bucketResult' = "False" /\ Return
          /\ UNCHANGED <<entries, scanned>>
    /\ UNCHANGED <<argv, processID, calls, cfgVars, createOutcome, fillInvoked,
                   uploaded, failedAt, objects, instVars>>

\* The object key and the ACL passed to bucket.upload_file (line 133).
SourcePath(name) == webFilesPath \o "/bucket/" \o name

UploadKeyIsPath(name) == SourcePath(name)

UploadKey(name) == name

UploadACL == "public-read"

\* One iteration of the for loop.
UploadFile ==
    /\ pc = "fb_upload"
    /\ uploaded < Len(entries)
    /\ LET file == entries[uploaded + 1] IN
         /\ calls' = Append(calls, Call("upload_file", UploadKey(file), UploadACL, 0))
         /\ \E ok \in BOOLEAN :
              IF ok
              THEN /\ objects' = objects \cup {[Key |-> UploadKey(file), ACL |-> UploadACL]}
                   /\ uploaded' = uploaded + 1
                   /\ UNCHANGED <<pc, failedAt, fillRaised, fillResult, bucketResult,
                                  awaited, exc>>
              ELSE /\ failedAt' = uploaded + 1
                   /\ fillRaised' = TRUE
                   /\ fillResult' = "False" /\ bucketResult' = "False" /\ Return
                   /\ UNCHANGED <<objects, uploaded>>
    /\ UNCHANGED <<argv, processID, cfgVars, createOutcome, fillInvoked, scanned,
                   entries, instVars>>

\* The loop is exhausted: fillBucket returns True and createBucket returns
\* that value (lines 139-140, 118).
FillComplete ==
    /\ pc = "fb_upload"
    /\ uploaded = Len(entries)
    /\ fillResult' = "True" /\ bucketResult' = "True" /\ Return
    /\ UNCHANGED <<argv, processID, calls, cfgVars, createOutcome, fillInvoked,
                   scanned, entries, uploaded, failedAt, fillRaised, objects, instVars>>

Next ==
    \/ Startup
    \/ ResolveBucketName
    \/ ResolveInstanceName
    \/ ResolveWebFilesPath
    \/ OpenStartupScript
    \/ HelpCheck
    \/ CreateKeyPair
    \/ CreateSecurityGroup
    \/ AuthorizeIngress
    \/ CreateInstances
    \/ WaitUntilRunning
    \/ Reload
    \/ CreateBucket
    \/ ScanDirectory
    \/ UploadFile
    \/ FillComplete

Spec == Init /\ [][Next]_vars

\* ================================================================= claims
CallOps == {calls[i].op : i \in 1..Len(calls)}

BucketOps == {"create_bucket", "upload_file"}
InstanceOps == {"create_key_pair", "create_security_group", "authorize_ingress",
                "create_instances", "describe_instances"}

IsUpload(c) == c.op = "upload_file"
UploadCalls == SelectSeq(calls, IsUpload)

HelpInArgv == \E i \in 1..Len(argv) : argv[i] = "--help"

\* C1 (as stated): in a run whose argv contains --help no remote call is
\* issued at any point of the run, startup included.
C1_NoRemoteCallWithHelp == HelpInArgv => calls = <<>>

\* C1 (amended): in a run whose argv contains --help the only remote call
\* ever issued is the caller-identity lookup of module start-up; main ends
\* without starting createBucket or createInstance, so no provisioning call
\* is issued and no resource is created.
C1_HelpIssuesOnlyIdentityLookup ==
    HelpInArgv =>
        /\ \A i \in 1..Len(calls) : calls[i].op = "get_caller_identity"
        /\ Len(calls) <= 1
        /\ awaited = 0
        /\ instResult = "none" /\ bucketResult = "none"
        /\ keyPairs = {} /\ securityGroups = {} /\ instances = {} /\ objects = {}

C1_HelpRunReturned == HelpInArgv /\ pc = "done" /\ Len(calls) = 1

\* C2: for each of the three flags, when the flag is in argv and followed by
\* a value v, the settings are resolved and the flag's setting is v.
FlagHasValue(flag) == \E i \in 1..(Len(argv) - 1) : argv[i] = flag

ValueAfter(flag) ==
    argv[(CHOOSE i \in 1..(Len(argv) - 1) :
              argv[i] = flag /\ \A j \in 1..(i - 1) : argv[j] # flag) + 1]

ResolutionOver == pc \in {"done", "crashed"} /\ exc # "StartupError"

C2_FlagValueIsConsumed ==
    ResolutionOver =>
        /\ FlagHasValue("--bucket_name") =>
               bucketName = ValueAfter("--bucket_name")
        /\ FlagHasValue("--instance_name") =>
               instanceName = ValueAfter("--instance_name")
        /\ FlagHasValue("--web_files_path") =>
               webFilesPath = ValueAfter("--web_files_path")

\* C3: createBucket goes on to the uploads exactly when create_bucket
\* succeeded or failed with BucketAlreadyOwnedByYou; a reused bucket gives
\* True when the upload block raises nothing; any other error code gives
\* False with no upload call and no object stored.
C3_UploadsIffCreatedOrOwned ==
    /\ fillInvoked <=> createOutcome \in {"ok", "BucketAlreadyOwnedByYou"}
    /\ "upload_file" \in CallOps => fillInvoked
    /\ (createOutcome = "BucketAlreadyOwnedByYou" /\ bucketResult # "none" /\ ~fillRaised)
           => bucketResult = "True"
    /\ createOutcome \in {"BucketAlreadyExists", "AccessDenied"} =>
           /\ bucketResult = "False"
           /\ "upload_file" \notin CallOps
           /\ objects = {}
           /\ ~scanned

C3_OwnedBucketReusedAndFilled ==
    /\ createOutcome = "BucketAlreadyOwnedByYou"
    /\ bucketResult = "True"
    /\ Len(UploadCalls) >= 1

\* C4: for a listing of N entries, fillBucket has returned True only after
\* exactly N upload calls, the k-th with key = name of the k-th entry and ACL
\* public-read (leaving exactly those N public-read objects); when the
\* upload of entry k raises, k calls were issued, none for a later entry,
\* and fillBucket returns False.
C4_OneUploadPerEntry ==
    scanned =>
        /\ \A k \in 1..Len(UploadCalls) :
               /\ k <= Len(entries)
               /\ UploadCalls[k].name = entries[k]
               /\ UploadCalls[k].extra = "public-read"
        /\ fillResult = "True" =>
               /\ Len(UploadCalls) = Len(entries)
               /\ objects = {[Key |-> entries[k], ACL |-> "public-read"] :
                               k \in 1..Len(entries)}
        /\ failedAt > 0 =>
               /\ fillResult = "False"
               /\ Len(UploadCalls) = failedAt
               /\ pc # "fb_upload"

C4_AllEntriesUploaded == scanned /\ fillResult = "True" /\ Len(entries) >= 2

\* C5: once the key-pair step has failed (create_key_pair raised, or writing
\* the key file raised), createInstance has returned False and no
\* create_security_group, authorize_ingress or create_instances call is ever
\* issued in the run.
C5_KeyPairFailureStopsInstance ==
    keyPairOutcome \in {"api_error", "file_error"} =>
        /\ instResult = "False"
        /\ pc \notin {"ci_sg", "ci_ingress", "ci_launch", "ci_wait", "ci_reload"}
        /\ CallOps \cap {"create_security_group", "authorize_ingress",
                         "create_instances"} = {}
        /\ securityGroups = {} /\ instances = {}

C5_KeyFileWriteFailedRunOver == keyPairOutcome = "file_error" /\ pc = "done"

\* C6: whatever a remote call inside a provisioning operation raises, the
\* operation returns False: no exception leaves createBucket, fillBucket or
\* createInstance, so the process never ends by an exception once main
\* awaits them.
C6_NoExceptionLeavesProvisioning ==
    awaited > 0 => (exc = "none" /\ bucketResult # "raised" /\ instResult # "raised")

\* C7 (as stated): after create_instances succeeded, createInstance has not
\* returned, with either result, unless the instance was observed running.
C7_NoReturnBeforeRunning ==
    (launchOk /\ instResult # "none") => observedRunning

\* C7 (amended): after create_instances succeeded, createInstance returns
\* True only once the instance was observed running; it returns without
\* that observation only with False, and only because wait_until_running
\* itself raised.
C7_TrueOnlyAfterRunning ==
    /\ instResult = "True" => (launchOk /\ observedRunning)
    /\ (launchOk /\ instResult # "none" /\ ~observedRunning) =>
           (instResult = "False" /\ waitRaised)

C7_ReturnedTrueAfterPolling == instResult = "True" /\ polls >= 1

\* C8: when the security-group step has completed, and so whenever
\* create_instances has been called, the group has exactly the three
\* ingress rules TCP 80, TCP 443 and TCP 22 from 0.0.0.0/0.
ExpectedIngress ==
    {[IpProtocol |-> "tcp", FromPort |-> p, ToPort |-> p, CidrIp |-> "0.0.0.0/0"] :
        p \in {80, 443, 22}}

C8_ExactlyThreeIngressRules ==
    /\ sgStepOk => (sgRules = ExpectedIngress /\ Cardinality(sgRules) = 3)
    /\ "create_instances" \in CallOps => (sgStepOk /\ sgRules = ExpectedIngress)

C8_LaunchCalledWithGroup == sgStepOk /\ "create_instances" \in CallOps

\* C9: every key pair, security group and instance created by the run
\* carries a tag whose key is the run's processID.
C9_ResourcesTaggedWithProcessID ==
    /\ \A k \in keyPairs : \E t \in k.Tags : t.Key = processID
    /\ \A g \in securityGroups : \E t \in g.Tags : t.Key = processID
    /\ \A n \in instances : \E t \in n.Tags : t.Key = processID

C9_AllThreeCreated == keyPairs # {} /\ securityGroups # {} /\ instances # {}

\* C10: createInstance has returned True or False before createBucket
\* issues its first remote call; in the order of issue no bucket-create or
\* upload call precedes a key-pair, security-group or instance call.
C10_InstanceBeforeBucket ==
    /\ CallOps \cap BucketOps # {} => instResult \in {"True", "False"}
    /\ pc \in {"cb_create", "fb_scan", "fb_upload"} => instResult \in {"True", "False"}
    /\ \A i \in 1..Len(calls) : \A j \in 1..Len(calls) :
           (calls[i].op \in BucketOps /\ calls[j].op \in InstanceOps) => j < i

C10_BothProvisioned == "create_key_pair" \in CallOps /\ "create_bucket" \in CallOps
====
